---------------------------- MODULE Spec2Model ----------------------------
(***************************************************************************)
(* Model of the Adafruit LC709203F fuel-gauge driver.                      *)
(*                                                                         *)
(* The repository holds two revisions of Adafruit_LC709203F.cpp:           *)
(*   "part_000"  begin configures the chip (power mode, pack size,         *)
(*               battery profile, temperature mode);                       *)
(*   "part_001"  begin only probes the IC version register.                *)
(* The variable rev says which revision is compiled; it never changes.     *)
(*                                                                         *)
(* Bytes are 0..255 and words 0..65535.  The transport (Adafruit_I2CDevice)*)
(* is the environment: each of its calls succeeds or fails, and a read     *)
(* delivers three bytes chosen by the device.                              *)
(***************************************************************************)
EXTENDS Integers, Naturals, Sequences, FiniteSets, TLC

VARIABLES
    rev,      \* revision of the .cpp file that is compiled
    alive,    \* TRUE from construction until the destructor has run
    i2c_dev,  \* the object's Adafruit_I2CDevice pointer; NULL is 0
    heap,     \* the Adafruit_I2CDevice objects allocated and not deleted
    made,     \* number of Adafruit_I2CDevice objects created so far
    peak,     \* largest number of such objects allocated at the same time
    call,     \* the last operation: its inputs and what it returned
    prev,     \* the frame of the writeWord that directly preceded call
    bus,      \* the transport exchanges of the last operation, in order
    buf       \* the byte buffer handed to the checksum function

vars == <<rev, alive, i2c_dev, heap, made, peak, call, prev, bus, buf>>

Revisions == {"part_000", "part_001"}

NULL == 0

-----------------------------------------------------------------------------
(* Register map and enumerations of Adafruit_LC709203F.h *)

LC709203F_I2CADDR_DEFAULT == 11
LC709203F_CMD_THERMISTORB == 6
LC709203F_CMD_INITRSOC == 7
LC709203F_CMD_CELLTEMPERATURE == 8
LC709203F_CMD_CELLVOLTAGE == 9
LC709203F_CMD_APA == 11
LC709203F_CMD_CELLITE == 15
LC709203F_CMD_ICVERSION == 17
LC709203F_CMD_BATTPROF == 18
LC709203F_CMD_ALARMRSOC == 19
LC709203F_CMD_ALARMVOLT == 20
LC709203F_CMD_POWERMODE == 21
LC709203F_CMD_STATUSBIT == 22

LC709203F_TEMPERATURE_I2C == 0
LC709203F_TEMPERATURE_THERMISTOR == 1
LC709203F_POWER_OPERATE == 1
LC709203F_POWER_SLEEP == 2
LC709203F_APA_100MAH == 8
LC709203F_APA_200MAH == 11
LC709203F_APA_500MAH == 16
LC709203F_APA_1000MAH == 25
LC709203F_APA_2000MAH == 45
LC709203F_APA_3000MAH == 54

lc709203_tempmode_t == {LC709203F_TEMPERATURE_I2C, LC709203F_TEMPERATURE_THERMISTOR}

lc709203_powermode_t == {LC709203F_POWER_OPERATE, LC709203F_POWER_SLEEP}

lc709203_adjustment_t ==
    {LC709203F_APA_100MAH, LC709203F_APA_200MAH, LC709203F_APA_500MAH,
     LC709203F_APA_1000MAH, LC709203F_APA_2000MAH, LC709203F_APA_3000MAH}

-----------------------------------------------------------------------------
(* Bit operations on naturals, as C computes them on unsigned operands *)

RECURSIVE Xor(_, _)
Xor(a, b) ==
    IF a = 0 THEN b
    ELSE IF b = 0 THEN a
    ELSE (((a % 2) + (b % 2)) % 2) + 2 * Xor(a \div 2, b \div 2)

RECURSIVE And(_, _)
And(a, b) ==
    IF a = 0 \/ b = 0 THEN 0
    ELSE ((a % 2) * (b % 2)) + 2 * And(a \div 2, b \div 2)

RECURSIVE Or(_, _)
Or(a, b) ==
    IF a = 0 THEN b
    ELSE IF b = 0 THEN a
    ELSE (IF a % 2 = 1 \/ b % 2 = 1 THEN 1 ELSE 0) + 2 * Or(a \div 2, b \div 2)

\* conversion of an int to uint8_t
U8(x) == x % 256

\* conversion of an int to uint16_t
U16(x) == x % 65536

-----------------------------------------------------------------------------
(* The checksum function *)

POLYNOMIAL == 7

\* crcShift with a fault: crc is kept in an int, so the shifted value is not
\* cut to 8 bits
crcShift_wide(crc) ==
    IF And(crc, 128) # 0 THEN Xor(crc * 2, POLYNOMIAL) ELSE crc * 2

\* one pass of the inner loop: crc = (crc & 0x80) ? (crc << 1) ^ POLYNOMIAL
\* : (crc << 1), the int result stored back into the uint8_t crc
crcShift(crc) ==
    U8(IF And(crc, 128) # 0 THEN Xor(crc * 2, POLYNOMIAL) ELSE crc * 2)

\* the inner loop, for (int i = 8; i; --i); s holds the loop's variables
RECURSIVE crcBits(_)
crcBits(s) ==
    IF s.i = 0 THEN s.crc
    ELSE crcBits([i |-> s.i - 1, crc |-> crcShift(s.crc)])

\* the outer loop, for (int j = len; j; --j), with crc ^= *data++ and the
\* inner loop as its body; s holds the loop's variables, s.at being the
\* place data points to
RECURSIVE crcBytes(_, _)
crcBytes(data, s) ==
    IF s.j = 0 THEN s.crc
    ELSE crcBytes(data,
             [j |-> s.j - 1, at |-> s.at + 1,
              crc |-> crcBits([i |-> 8, crc |-> U8(Xor(s.crc, data[s.at]))])])

\* part_000: static uint8_t lc709_crc8(uint8_t *data, int len)
lc709_crc8(data, len) == crcBytes(data, [j |-> len, at |-> 1, crc |-> 0])

\* part_001: static uint8_t crc8(uint8_t *data, int len)
crc8(data, len) == crcBytes(data, [j |-> len, at |-> 1, crc |-> 0])

\* the checksum function the revision's readWord and writeWord call
checksum(r, data, len) ==
    IF r = "part_000" THEN lc709_crc8(data, len) ELSE crc8(data, len)

-----------------------------------------------------------------------------
(* Reference CRC-8/SMBUS: the remainder of message(x) * x^8 divided by      *)
(* x^8 + x^2 + x + 1 over GF(2), by long division on the bit string        *)
(* (most significant bit first, initial value 0, nothing reflected).       *)

\* bit k (from 1, most significant first) of the message followed by eight
\* zero bits
MsgBit(data, k) ==
    IF k > 8 * Len(data) THEN 0
    ELSE (data[((k - 1) \div 8) + 1] \div (2 ^ (7 - ((k - 1) % 8)))) % 2

\* adding x^2 + x + 1 to a polynomial of degree below 8: its three lowest
\* coefficients are complemented
AddLowTerms(x) == (x - (x % 8)) + (7 - (x % 8))

\* long division: s.rem is the remainder of the bits before place s.k; the
\* next bit is shifted in, and when the coefficient of x^8 becomes 1 the
\* divisor x^8 + x^2 + x + 1 is subtracted
RECURSIVE PolyRem(_, _)
PolyRem(data, s) ==
    IF s.k > 8 * Len(data) + 8 THEN s.rem
    ELSE LET t == 2 * s.rem + MsgBit(data, s.k)
         IN  PolyRem(data,
                 [k |-> s.k + 1,
                  rem |-> IF t >= 256 THEN AddLowTerms(t - 256) ELSE t])

Crc8Smbus(data) == PolyRem(data, [k |-> 1, rem |-> 0])

-----------------------------------------------------------------------------
(* The transaction codec *)

\* One transport exchange as the bus log records it: the bytes handed to the
\* transport, the number of bytes asked back, the bytes the device returned
\* and the transport's result.
Exchange(kind, out, rlen, in, ok) ==
    [kind |-> kind, out |-> out, rlen |-> rlen, in |-> in, ok |-> ok]

\* the length writeWord passes to i2c_dev->write(send + 1, len)
writeLen(r) == IF r = "part_000" THEN 4 ELSE 5

\* bool writeWord(uint8_t command, uint16_t data).  over is the byte found
\* behind the 5-byte array send when the transport reads past its end
\* (part_001 passes send + 1 with length 5); ok is the transport's result.
writeWord(r, command, data, over, ok) ==
    LET send0 == U8(LC709203F_I2CADDR_DEFAULT * 2)
        send1 == command
        send2 == U8(And(data, 255))
        send3 == U8(data \div 256)
        send4 == checksum(r, <<send0, send1, send2, send3>>, 4)
        \* the bytes from send + 1 on: send[1] .. send[4], then what lies
        \* behind the array
        from1 == <<send1, send2, send3, send4, over>>
    IN  [ret |-> ok,
         xfer |-> Exchange("write", SubSeq(from1, 1, writeLen(r)), 0, <<>>, ok)]

\* readWord with a fault: the checksum comparison is left out
readWord_nocrc(r, command, data, ok, rx) ==
    IF ~ok
    THEN [ret |-> FALSE, data |-> data,
          xfer |-> Exchange("write_then_read", <<command>>, 3, <<>>, FALSE)]
    ELSE [ret |-> TRUE, data |-> Or(U16(U16(rx[2]) * 256), rx[1]),
          xfer |-> Exchange("write_then_read", <<command>>, 3, rx, TRUE)]

\* readWord with a fault: the word is assembled high byte first
readWord_swapped(r, command, data, ok, rx) ==
    LET reply == <<U8(LC709203F_I2CADDR_DEFAULT * 2), command,
                   Or(U8(LC709203F_I2CADDR_DEFAULT * 2), 1)>> \o rx
    IN  IF ~ok
        THEN [ret |-> FALSE, data |-> data,
              xfer |-> Exchange("write_then_read", <<command>>, 3, <<>>, FALSE)]
        ELSE IF checksum(r, reply, 5) # reply[6]
        THEN [ret |-> FALSE, data |-> data,
              xfer |-> Exchange("write_then_read", <<command>>, 3, rx, TRUE)]
        ELSE [ret |-> TRUE, data |-> Or(U16(U16(reply[4]) * 256), reply[5]),
              xfer |-> Exchange("write_then_read", <<command>>, 3, rx, TRUE)]

\* bool readWord(uint8_t command, uint16_t *data).  data is the value *data
\* holds at the call; ok is the result of write_then_read and rx the three
\* bytes it stored at reply + 3 (read only when ok).  reply[k] of the code is
\* reply[k + 1] here.
readWord(r, command, data, ok, rx) ==
    LET reply0 == U8(LC709203F_I2CADDR_DEFAULT * 2)
        reply2 == Or(reply0, 1)
        reply  == <<reply0, command, reply2>> \o rx
    IN  IF ~ok
        THEN [ret |-> FALSE, data |-> data,
              xfer |-> Exchange("write_then_read", <<command>>, 3, <<>>, FALSE)]
        ELSE IF checksum(r, reply, 5) # reply[6]
        THEN [ret |-> FALSE, data |-> data,
              xfer |-> Exchange("write_then_read", <<command>>, 3, rx, TRUE)]
        ELSE [ret |-> TRUE, data |-> Or(U16(U16(reply[5]) * 256), reply[4]),
              xfer |-> Exchange("write_then_read", <<command>>, 3, rx, TRUE)]

-----------------------------------------------------------------------------
(* The register facade.  A setter yields what writeWord yields.  A getter  *)
(* yields the number it returns as the fraction num / den, what its        *)
(* readWord returned (codec, which the getter drops) and the exchange.     *)

\* C's integer division, which truncates toward zero
Quot(a, b) ==
    IF (a >= 0) = (b > 0) THEN (IF a >= 0 THEN a ELSE -a) \div (IF b > 0 THEN b ELSE -b)
    ELSE -((IF a >= 0 THEN a ELSE -a) \div (IF b > 0 THEN b ELSE -b))

\* Arduino's long map(long x, long in_min, long in_max, long out_min,
\* long out_max); the values used here stay far inside a 32-bit long
map(x, in_min, in_max, out_min, out_max) ==
    Quot((x - in_min) * (out_max - out_min), in_max - in_min) + out_min

Got(rd, num, den) ==
    [num |-> num, den |-> den, codec |-> rd.ret, xfer |-> rd.xfer]

\* uint16_t getICversion(void)
getICversion(r, ok, rx) ==
    LET rd == readWord(r, LC709203F_CMD_ICVERSION, 0, ok, rx)
    IN  Got(rd, rd.data, 1)

\* float cellVoltage(void): voltage / 1000.0
cellVoltage(r, ok, rx) ==
    LET rd == readWord(r, LC709203F_CMD_CELLVOLTAGE, 0, ok, rx)
    IN  Got(rd, rd.data, 1000)

\* float cellPercent(void): percent / 10.0 in part_000,
\* 100 - (percent / 10.0) in part_001
cellPercent(r, ok, rx) ==
    LET rd == readWord(r, LC709203F_CMD_CELLITE, 0, ok, rx)
    IN  IF r = "part_000" THEN Got(rd, rd.data, 10)
        ELSE Got(rd, 1000 - rd.data, 10)

\* float getCellTemperature(void) (part_000):
\* tempf = map(temp, 0x9E4, 0xD04, -200, 600); return tempf / 10.0
getCellTemperature(ok, rx) ==
    LET rd == readWord("part_000", LC709203F_CMD_CELLTEMPERATURE, 0, ok, rx)
    IN  Got(rd, map(rd.data, 2532, 3332, -200, 600), 10)

\* uint16_t getThermistorB(void)
getThermistorB(r, ok, rx) ==
    LET rd == readWord(r, LC709203F_CMD_THERMISTORB, 0, ok, rx)
    IN  Got(rd, rd.data, 1)

\* uint16_t getBattProfile(void) (part_000)
getBattProfile(ok, rx) ==
    LET rd == readWord("part_000", LC709203F_CMD_BATTPROF, 0, ok, rx)
    IN  Got(rd, rd.data, 1)

\* bool setThermistorB(uint16_t b)
setThermistorB(r, b, over, ok) ==
    writeWord(r, LC709203F_CMD_THERMISTORB, b, over, ok)

\* The setters below exist in part_000 only, where writeWord hands over
\* send + 1 .. send + 4 and nothing behind the array is read.

\* bool initRSOC(void)
initRSOC(ok) == writeWord("part_000", LC709203F_CMD_INITRSOC, 43605, 0, ok)

\* bool setTemperatureMode(lc709203_tempmode_t t)
setTemperatureMode(t, ok) ==
    writeWord("part_000", LC709203F_CMD_STATUSBIT, U16(t), 0, ok)

\* bool setPackSize(lc709203_adjustment_t apa)
setPackSize(apa, ok) ==
    writeWord("part_000", LC709203F_CMD_APA, U16(apa), 0, ok)

\* bool setPackAPA(uint8_t apa_value)
setPackAPA(apa_value, ok) ==
    writeWord("part_000", LC709203F_CMD_APA, U16(apa_value), 0, ok)

\* bool setAlarmRSOC(uint8_t percent)
setAlarmRSOC(percent, ok) ==
    writeWord("part_000", LC709203F_CMD_ALARMRSOC, U16(percent), 0, ok)

\* the float n / d times 1000, converted to uint16_t: the fraction is cut
\* off; a value that does not fit is undefined behaviour, wild standing for
\* the word the build produces
MillisAsU16(n, d, wild) ==
    LET q == Quot(n * 1000, d)
    IN  IF q \in 0..65535 THEN q ELSE wild

\* bool setAlarmVoltage(float voltage), voltage being n / d
setAlarmVoltage(n, d, wild, ok) ==
    writeWord("part_000", LC709203F_CMD_ALARMVOLT, MillisAsU16(n, d, wild), 0, ok)

\* bool setPowerMode(lc709203_powermode_t t)
setPowerMode(t, ok) ==
    writeWord("part_000", LC709203F_CMD_POWERMODE, U16(t), 0, ok)

\* bool setBattProfile(uint16_t b)
setBattProfile(b, ok) ==
    writeWord("part_000", LC709203F_CMD_BATTPROF, b, 0, ok)

-----------------------------------------------------------------------------
(* begin and the destructor *)

\* releaseOld with a fault: the old interface is not removed
releaseOld_skip(dev, h) == h

\* if (i2c_dev) { delete i2c_dev; }
releaseOld(dev, h) == IF dev # NULL THEN h \ {dev} ELSE h

\* begin_config with a fault: a failed setPackSize does not end begin
begin_config_lenient(oks) ==
    LET w1 == setPowerMode(LC709203F_POWER_OPERATE, oks[1])
        w2 == setPackSize(LC709203F_APA_500MAH, oks[2])
        w3 == setBattProfile(1, oks[3])
        w4 == setTemperatureMode(LC709203F_TEMPERATURE_THERMISTOR, oks[4])
    IN  IF ~w1.ret THEN [ret |-> FALSE, bus |-> <<w1.xfer>>]
        ELSE IF ~w3.ret
        THEN [ret |-> FALSE, bus |-> <<w1.xfer, w2.xfer, w3.xfer>>]
        ELSE IF ~w4.ret
        THEN [ret |-> FALSE, bus |-> <<w1.xfer, w2.xfer, w3.xfer, w4.xfer>>]
        ELSE [ret |-> TRUE, bus |-> <<w1.xfer, w2.xfer, w3.xfer, w4.xfer>>]

\* part_000, what begin does once the transport is open: the four
\* configuration writes, each ending begin when it fails.  oks[k] is the
\* transport's result for write k, should it be issued.
begin_config(oks) ==
    LET w1 == setPowerMode(LC709203F_POWER_OPERATE, oks[1])
        w2 == setPackSize(LC709203F_APA_500MAH, oks[2])
        w3 == setBattProfile(1, oks[3])
        w4 == setTemperatureMode(LC709203F_TEMPERATURE_THERMISTOR, oks[4])
    IN  IF ~w1.ret THEN [ret |-> FALSE, bus |-> <<w1.xfer>>]
        ELSE IF ~w2.ret THEN [ret |-> FALSE, bus |-> <<w1.xfer, w2.xfer>>]
        ELSE IF ~w3.ret
        THEN [ret |-> FALSE, bus |-> <<w1.xfer, w2.xfer, w3.xfer>>]
        ELSE IF ~w4.ret
        THEN [ret |-> FALSE, bus |-> <<w1.xfer, w2.xfer, w3.xfer, w4.xfer>>]
        ELSE [ret |-> TRUE, bus |-> <<w1.xfer, w2.xfer, w3.xfer, w4.xfer>>]

\* begin_probe with a fault: begin reports whether the probe read succeeded
begin_probe_strict(ok, rx) ==
    LET g == getICversion("part_001", ok, rx)
    IN  [ret |-> g.codec, bus |-> <<g.xfer>>]

\* part_001, what begin does once the transport is open:
\* getICversion(); return true;
begin_probe(ok, rx) ==
    LET g == getICversion("part_001", ok, rx)
    IN  [ret |-> TRUE, bus |-> <<g.xfer>>]

\* bool begin(TwoWire *wire).  dev, h and n are i2c_dev, the heap and the
\* number of interfaces created so far; opened is the result of
\* i2c_dev->begin(); oks are the results of the configuration writes
\* (part_000); ok and rx are the outcome of the probe read (part_001).
\* live is the number of interfaces allocated right after the new one is.
begin(r, dev, h, n, opened, oks, ok, rx) ==
    LET h1   == releaseOld(dev, h)
        new  == n + 1
        h2   == h1 \cup {new}
        open == Exchange("begin", <<>>, 0, <<>>, opened)
        rest == IF r = "part_000" THEN begin_config(oks) ELSE begin_probe(ok, rx)
    IN  IF ~opened
        THEN [ret |-> FALSE, dev |-> new, heap |-> h2, made |-> new,
              live |-> Cardinality(h2), bus |-> <<open>>]
        ELSE [ret |-> rest.ret, dev |-> new, heap |-> h2, made |-> new,
              live |-> Cardinality(h2), bus |-> <<open>> \o rest.bus]

\* ~Adafruit_LC709203F(void) {}: the body is empty and i2c_dev is a plain
\* pointer, so nothing is deleted
destructor(dev, h) == h

-----------------------------------------------------------------------------
(* The record of the last operation *)

\* op: the operation; cmd: its register command; arg / scale: its argument
\* (a float argument is the fraction arg / scale); ok: the bool it returned;
\* num / den: the number it returned (a float result is the fraction
\* num / den; readWord's num is *data after the call); codec: what the
\* operation's readWord or writeWord returned to it.
Call(op, cmd, arg, scale, ok, num, den, codec) ==
    [op |-> op, cmd |-> cmd, arg |-> arg, scale |-> scale, ok |-> ok,
     num |-> num, den |-> den, codec |-> codec]

NoCall == Call("none", 0, 0, 1, FALSE, 0, 1, FALSE)

NoFrame == <<>>

-----------------------------------------------------------------------------
(* Specification SpecCrc: the checksum function on a bounded set of buffers *)

MaxLen == 3

CrcBytes == {0, 1, 22, 23, 128, 255}

\* the ASCII digits "123456789", the input of the CRC catalogue's check value
CheckString == <<49, 50, 51, 52, 53, 54, 55, 56, 57>>

CrcInputs ==
    UNION {[1..n -> CrcBytes] : n \in 0..MaxLen}
        \cup {<<b>> : b \in 0..255}
        \cup {CheckString}

InitCrc ==
    /\ rev \in Revisions
    /\ alive = TRUE
    /\ i2c_dev = NULL
    /\ heap = {}
    /\ made = 0
    /\ peak = 0
    /\ call = NoCall
    /\ prev = NoFrame
    /\ bus = <<>>
    /\ buf \in CrcInputs

ChecksumCall ==
    /\ call.op = "none"
    /\ call' = Call("crc8", 0, 0, 1, FALSE, checksum(rev, buf, Len(buf)), 1, FALSE)
    /\ UNCHANGED <<rev, alive, i2c_dev, heap, made, peak, prev, bus, buf>>

NextCrc == ChecksumCall

SpecCrc == InitCrc /\ [][NextCrc]_vars

-----------------------------------------------------------------------------
(* Specification SpecCodec: readWord and writeWord called on an object     *)
(* whose begin has run, a writeWord possibly followed by a readWord        *)

CodecCommands == {LC709203F_CMD_THERMISTORB, LC709203F_CMD_ICVERSION, 255}

CodecBytes == {0, 110, 255}

CodecWords == {hi * 256 + lo : lo \in CodecBytes, hi \in CodecBytes}

\* values the caller's output variable holds before a readWord
OutValues == {0, 48879}

\* bytes found behind the array send (part_001 only)
OverBytes == {0, 165}

\* the frame a read's checksum covers: write address, command, read address,
\* data low, data high
ReadFrame(command, lo, hi) ==
    <<LC709203F_I2CADDR_DEFAULT * 2, command,
      LC709203F_I2CADDR_DEFAULT * 2 + 1, lo, hi>>

\* the frame a write's checksum covers: write address, command, data low,
\* data high
WriteFrame(command, lo, hi) ==
    <<LC709203F_I2CADDR_DEFAULT * 2, command, lo, hi>>

\* the checksum bytes a device reply may end with: the right one, and the
\* right one with its lowest or its highest bit flipped
ReplyChecksums(command, lo, hi) ==
    LET c == Crc8Smbus(ReadFrame(command, lo, hi))
    IN  {c, Xor(c, 1), Xor(c, 128)}

\* what write_then_read can produce: a failure, which stores nothing (<<>>),
\* or three bytes from the device
DeviceReplies(command) ==
    {<<>>} \cup
    UNION {{<<lo, hi, sum>> : sum \in ReplyChecksums(command, lo, hi)} :
              lo \in CodecBytes, hi \in CodecBytes}

\* the replies to each command, worked out once
Replies == [command \in CodecCommands |-> DeviceReplies(command)]

InitCodec ==
    /\ rev \in Revisions
    /\ alive = TRUE
    /\ i2c_dev = 1
    /\ heap = {1}
    /\ made = 1
    /\ peak = 1
    /\ call = NoCall
    /\ prev = NoFrame
    /\ bus = <<>>
    /\ buf = <<>>

WriteWordCall ==
    /\ call.op = "none"
    /\ \E command \in CodecCommands, data \in CodecWords,
          over \in OverBytes, ok \in BOOLEAN :
          \E w \in {writeWord(rev, command, data, over, ok)} :
              /\ call' = Call("writeWord", command, data, 1, w.ret, 0, 1, w.ret)
              /\ bus' = <<w.xfer>>
    /\ prev' = NoFrame
    /\ UNCHANGED <<rev, alive, i2c_dev, heap, made, peak, buf>>

ReadWordCall ==
    /\ call.op \in {"none", "writeWord"}
    /\ \E command \in CodecCommands, data \in OutValues :
          \E rx \in Replies[command] :
             \E rd \in {readWord(rev, command, data, rx # <<>>, rx)} :
                 /\ call' = Call("readWord", command, data, 1, rd.ret,
                                 rd.data, 1, rd.ret)
                 /\ bus' = <<rd.xfer>>
    /\ prev' = IF call.op = "writeWord"
               THEN [cmd |-> call.cmd, data |-> call.arg, out |-> bus[1].out]
               ELSE NoFrame
    /\ UNCHANGED <<rev, alive, i2c_dev, heap, made, peak, buf>>

NextCodec == WriteWordCall \/ ReadWordCall

SpecCodec == InitCodec /\ [][NextCodec]_vars

-----------------------------------------------------------------------------
(* Specification Spec: one driver object from construction to destruction, *)
(* begin and the facade's operations called in any order                   *)

MaxHandles == 3

\* register contents a device may return to a getter
RawWords == {0, 755, 2532, 3332, 3700, 65535}

FacadeReadCommands ==
    {LC709203F_CMD_ICVERSION, LC709203F_CMD_CELLVOLTAGE, LC709203F_CMD_CELLITE,
     LC709203F_CMD_CELLTEMPERATURE, LC709203F_CMD_THERMISTORB,
     LC709203F_CMD_BATTPROF}

\* what write_then_read can produce for a getter: a failure (<<>>), or a
\* register word followed by the right checksum or by a corrupted one
RegisterReplies(command) ==
    {<<>>} \cup
    UNION {{<<w % 256, w \div 256, sum>> :
               sum \in LET c == Crc8Smbus(ReadFrame(command, w % 256, w \div 256))
                       IN  {c, Xor(c, 1)}} :
              w \in RawWords}

Registers == [command \in FacadeReadCommands |-> RegisterReplies(command)]

ThermistorValues == {0, 3950, 65535}

ApaValues == {0, 16, 255}

PercentValues == {0, 5, 255}

\* float arguments n / d of setAlarmVoltage: 0, 3.5, 0.0625 and 66 volts,
\* each times 1000 exact in float arithmetic
VoltageValues == {<<0, 1>>, <<7, 2>>, <<1, 16>>, <<66, 1>>}

\* words an out-of-range float conversion may produce
WildWords == {0, 464, 65535}

Getters ==
    {"getICversion", "cellVoltage", "cellPercent", "getCellTemperature",
     "getThermistorB", "getBattProfile"}

Setters ==
    {"setThermistorB", "initRSOC", "setTemperatureMode", "setPackSize",
     "setPackAPA", "setAlarmRSOC", "setAlarmVoltage", "setPowerMode",
     "setBattProfile"}

Init ==
    /\ rev \in Revisions
    /\ alive = TRUE
    /\ i2c_dev = NULL
    /\ heap = {}
    /\ made = 0
    /\ peak = 0
    /\ call = NoCall
    /\ prev = NoFrame
    /\ bus = <<>>
    /\ buf = <<>>

\* the object is alive and begin has created an interface; every operation
\* but begin dereferences i2c_dev, and calling one while it is NULL is left
\* out of the model
Usable == alive /\ i2c_dev # NULL

Max(a, b) == IF a >= b THEN a ELSE b

\* what the transport can do during begin: fail to open; or open and then,
\* in part_000, pass or fail each configuration write, in part_001, answer
\* the probe read
BeginOutcomes(r) ==
    {[opened |-> FALSE, oks |-> [k \in 1..4 |-> FALSE], rx |-> <<>>]} \cup
    (IF r = "part_000"
     THEN {[opened |-> TRUE, oks |-> oks, rx |-> <<>>] : oks \in [1..4 -> BOOLEAN]}
     ELSE {[opened |-> TRUE, oks |-> [k \in 1..4 |-> FALSE], rx |-> rx] :
              rx \in Registers[LC709203F_CMD_ICVERSION]})

Begin ==
    /\ alive
    /\ made < MaxHandles
    /\ \E in \in BeginOutcomes(rev) :
          \E b \in {begin(rev, i2c_dev, heap, made, in.opened, in.oks,
                          in.rx # <<>>, in.rx)} :
              /\ i2c_dev' = b.dev
              /\ heap' = b.heap
              /\ made' = b.made
              /\ peak' = Max(peak, b.live)
              /\ call' = Call("begin", 0, 0, 1, b.ret, 0, 1, b.ret)
              /\ bus' = b.bus
    /\ UNCHANGED <<rev, alive, prev, buf>>

Destroy ==
    /\ alive
    /\ alive' = FALSE
    /\ heap' = destructor(i2c_dev, heap)
    /\ call' = Call("destructor", 0, 0, 1, FALSE, 0, 1, FALSE)
    /\ bus' = <<>>
    /\ UNCHANGED <<rev, i2c_dev, made, peak, prev, buf>>

\* a getter has run: g is what it yielded
Returned(op, command, g) ==
    /\ call' = Call(op, command, 0, 1, FALSE, g.num, g.den, g.codec)
    /\ bus' = <<g.xfer>>
    /\ UNCHANGED <<rev, alive, i2c_dev, heap, made, peak, prev, buf>>

\* a setter has run: w is what its writeWord yielded, which it returns
Written(op, command, arg, scale, w) ==
    /\ call' = Call(op, command, arg, scale, w.ret, 0, 1, w.ret)
    /\ bus' = <<w.xfer>>
    /\ UNCHANGED <<rev, alive, i2c_dev, heap, made, peak, prev, buf>>

GetICversion ==
    /\ Usable
    /\ \E rx \in Registers[LC709203F_CMD_ICVERSION] :
          \E g \in {getICversion(rev, rx # <<>>, rx)} :
              Returned("getICversion", LC709203F_CMD_ICVERSION, g)

CellVoltage ==
    /\ Usable
    /\ \E rx \in Registers[LC709203F_CMD_CELLVOLTAGE] :
          \E g \in {cellVoltage(rev, rx # <<>>, rx)} :
              Returned("cellVoltage", LC709203F_CMD_CELLVOLTAGE, g)

CellPercent ==
    /\ Usable
    /\ \E rx \in Registers[LC709203F_CMD_CELLITE] :
          \E g \in {cellPercent(rev, rx # <<>>, rx)} :
              Returned("cellPercent", LC709203F_CMD_CELLITE, g)

GetCellTemperature ==
    /\ Usable
    /\ rev = "part_000"
    /\ \E rx \in Registers[LC709203F_CMD_CELLTEMPERATURE] :
          \E g \in {getCellTemperature(rx # <<>>, rx)} :
              Returned("getCellTemperature", LC709203F_CMD_CELLTEMPERATURE, g)

GetThermistorB ==
    /\ Usable
    /\ \E rx \in Registers[LC709203F_CMD_THERMISTORB] :
          \E g \in {getThermistorB(rev, rx # <<>>, rx)} :
              Returned("getThermistorB", LC709203F_CMD_THERMISTORB, g)

GetBattProfile ==
    /\ Usable
    /\ rev = "part_000"
    /\ \E rx \in Registers[LC709203F_CMD_BATTPROF] :
          \E g \in {getBattProfile(rx # <<>>, rx)} :
              Returned("getBattProfile", LC709203F_CMD_BATTPROF, g)

SetThermistorB ==
    /\ Usable
    /\ \E b \in ThermistorValues, ok \in BOOLEAN,
          over \in (IF rev = "part_000" THEN {0} ELSE OverBytes) :
          \E w \in {setThermistorB(rev, b, over, ok)} :
              Written("setThermistorB", LC709203F_CMD_THERMISTORB, b, 1, w)

InitRSOC ==
    /\ Usable
    /\ rev = "part_000"
    /\ \E ok \in BOOLEAN :
          \E w \in {initRSOC(ok)} :
              Written("initRSOC", LC709203F_CMD_INITRSOC, 0, 1, w)

SetTemperatureMode ==
    /\ Usable
    /\ rev = "part_000"
    /\ \E t \in lc709203_tempmode_t, ok \in BOOLEAN :
          \E w \in {setTemperatureMode(t, ok)} :
              Written("setTemperatureMode", LC709203F_CMD_STATUSBIT, t, 1, w)

SetPackSize ==
    /\ Usable
    /\ rev = "part_000"
    /\ \E apa \in lc709203_adjustment_t, ok \in BOOLEAN :
          \E w \in {setPackSize(apa, ok)} :
              Written("setPackSize", LC709203F_CMD_APA, apa, 1, w)

SetPackAPA ==
    /\ Usable
    /\ rev = "part_000"
    /\ \E apa_value \in ApaValues, ok \in BOOLEAN :
          \E w \in {setPackAPA(apa_value, ok)} :
              Written("setPackAPA", LC709203F_CMD_APA, apa_value, 1, w)

SetAlarmRSOC ==
    /\ Usable
    /\ rev = "part_000"
    /\ \E percent \in PercentValues, ok \in BOOLEAN :
          \E w \in {setAlarmRSOC(percent, ok)} :
              Written("setAlarmRSOC", LC709203F_CMD_ALARMRSOC, percent, 1, w)

SetAlarmVoltage ==
    /\ Usable
    /\ rev = "part_000"
    /\ \E v \in VoltageValues, ok \in BOOLEAN :
          \E wild \in (IF Quot(v[1] * 1000, v[2]) \in 0..65535
                       THEN {0} ELSE WildWords) :
             \E w \in {setAlarmVoltage(v[1], v[2], wild, ok)} :
                 Written("setAlarmVoltage", LC709203F_CMD_ALARMVOLT, v[1], v[2], w)

SetPowerMode ==
    /\ Usable
    /\ rev = "part_000"
    /\ \E t \in lc709203_powermode_t, ok \in BOOLEAN :
          \E w \in {setPowerMode(t, ok)} :
              Written("setPowerMode", LC709203F_CMD_POWERMODE, t, 1, w)

SetBattProfile ==
    /\ Usable
    /\ rev = "part_000"
    /\ \E b \in {0, 1}, ok \in BOOLEAN :
          \E w \in {setBattProfile(b, ok)} :
              Written("setBattProfile", LC709203F_CMD_BATTPROF, b, 1, w)

Next ==
    \/ Begin
    \/ Destroy
    \/ GetICversion
    \/ CellVoltage
    \/ CellPercent
    \/ GetCellTemperature
    \/ GetThermistorB
    \/ GetBattProfile
    \/ SetThermistorB
    \/ InitRSOC
    \/ SetTemperatureMode
    \/ SetPackSize
    \/ SetPackAPA
    \/ SetAlarmRSOC
    \/ SetAlarmVoltage
    \/ SetPowerMode
    \/ SetBattProfile

Spec == Init /\ [][Next]_vars

-----------------------------------------------------------------------------
(* Claims about the codec *)

\* C3: for every buffer the checksum function returns the CRC-8/SMBUS value
\* of its bytes (polynomial 0x07, initial value 0, most significant bit
\* first, nothing reflected), an 8-bit value; the catalogue's check value
\* for "123456789" is 0xF4.
C3_ChecksumIsCrc8Smbus ==
    call.op = "crc8" =>
        /\ call.num = Crc8Smbus(buf)
        /\ call.num \in 0..255
        /\ (buf = CheckString => call.num = 244)
        /\ (buf = <<>> => call.num = 0)

C3_Witness ==
    /\ call.op = "crc8"
    /\ buf = CheckString
    /\ call.num = 244

\* what a read's bus exchange says about its outcome: the transport
\* succeeded and the third byte received is the CRC of the read frame
ReadIsGood(x, command) ==
    /\ x.ok
    /\ x.in[3] = Crc8Smbus(ReadFrame(command, x.in[1], x.in[2]))

\* C1: readWord returns success exactly when the transport succeeded and the
\* received checksum is the CRC of [0x16, command, 0x17, low, high]; when it
\* fails the caller's output value is what it was before the call.
C1_ReadWordFailsClosed ==
    call.op = "readWord" =>
        /\ Len(bus) = 1
        /\ call.ok = ReadIsGood(bus[1], call.cmd)
        /\ (~ReadIsGood(bus[1], call.cmd) => call.num = call.arg)

C1_Witness ==
    /\ call.op = "readWord"
    /\ bus[1].ok
    /\ bus[1].in[3] = Xor(Crc8Smbus(ReadFrame(call.cmd, bus[1].in[1], bus[1].in[2])), 1)
    /\ ~call.ok
    /\ call.arg = 48879
    /\ call.num = 48879
    /\ bus[1].in[2] * 256 + bus[1].in[1] # 48879

\* C2: writeWord hands the transport's write exactly the four bytes
\* [command, low, high, checksum], the checksum being the CRC of
\* [0x16, command, low, high]; nothing follows the checksum.
C2_WriteWordFrame ==
    call.op = "writeWord" =>
        /\ Len(bus) = 1
        /\ bus[1].kind = "write"
        /\ bus[1].out =
              <<call.cmd, call.arg % 256, call.arg \div 256,
                Crc8Smbus(WriteFrame(call.cmd, call.arg % 256, call.arg \div 256))>>

\* the case the round trip is about: the read directly follows a writeWord
\* of the same command, the transport succeeded and the device returned the
\* two data bytes that were written, with the right checksum
RoundTripCase ==
    /\ call.op = "readWord"
    /\ prev # NoFrame
    /\ prev.cmd = call.cmd
    /\ bus[1].in = <<prev.out[2], prev.out[3],
                     Crc8Smbus(ReadFrame(call.cmd, prev.out[2], prev.out[3]))>>

\* C4: a readWord that follows writeWord(command, V) and is given the two
\* data bytes writeWord transmitted, with a correct checksum, succeeds and
\* yields V.
C4_RoundTrip ==
    RoundTripCase => (call.ok /\ call.num = prev.data)

C4_Witness ==
    /\ RoundTripCase
    /\ call.ok
    /\ call.num = prev.data
    /\ prev.data = 110 * 256 + 255
    /\ call.arg = 48879

-----------------------------------------------------------------------------
(* Claims about begin, the destructor and the facade *)

\* C5: over any sequence of begin calls, whatever each one's outcome, the
\* interface created earlier is deleted before the new one is created: never
\* more than one is allocated, and none but the one i2c_dev points to.
C5_BeginReleasesOld ==
    /\ peak <= 1
    /\ Cardinality(heap) <= 1
    /\ heap \subseteq {i2c_dev}
    /\ (made > 0 => heap = {made})

C5_Witness ==
    /\ alive
    /\ call.op = "begin"
    /\ made = 3
    /\ heap = {3}
    /\ i2c_dev = 3
    /\ peak = 1
    /\ ~call.ok

\* C6: once the driver object is destroyed, no interface it created is
\* still allocated.
C6_DestructorReleases ==
    ~alive => heap = {}

\* the frame writeWord is to transmit for a command and a word
WireFrame(command, word) ==
    <<command, word % 256, word \div 256,
      Crc8Smbus(WriteFrame(command, word % 256, word \div 256))>>

\* the configuration writes of begin in the order the claim gives them:
\* power mode 0x15 = 0x0001, pack size 0x0B = 0x10, battery profile
\* 0x12 = 0x0001, temperature mode 0x16 = 0x0001
ConfigFrames ==
    <<WireFrame(21, 1), WireFrame(11, 16), WireFrame(18, 1), WireFrame(22, 1)>>

\* the exchanges of a begin after the opening of the transport
AfterOpen == SubSeq(bus, 2, Len(bus))

\* C7: in part_000 begin succeeds exactly when the transport opened and all
\* four configuration writes succeeded; the writes go out in the order
\* power mode, pack size, battery profile, temperature mode, and nothing is
\* written after the transport failed to open or a write failed.
C7_BeginConfigures ==
    (rev = "part_000" /\ call.op = "begin") =>
        /\ bus[1].kind = "begin"
        /\ Len(AfterOpen) <= 4
        /\ \A k \in 1..Len(AfterOpen) :
              /\ AfterOpen[k].kind = "write"
              /\ AfterOpen[k].out = ConfigFrames[k]
              /\ (k < Len(AfterOpen) => AfterOpen[k].ok)
        /\ (~bus[1].ok => AfterOpen = <<>>)
        /\ (bus[1].ok => AfterOpen # <<>>)
        /\ ((AfterOpen # <<>> /\ Len(AfterOpen) < 4) => ~AfterOpen[Len(AfterOpen)].ok)
        /\ call.ok = (/\ bus[1].ok
                      /\ Len(AfterOpen) = 4
                      /\ \A k \in 1..4 : AfterOpen[k].ok)

C7_Witness ==
    /\ rev = "part_000"
    /\ call.op = "begin"
    /\ bus[1].ok
    /\ Len(AfterOpen) = 2
    /\ AfterOpen[1].ok
    /\ ~AfterOpen[2].ok
    /\ ~call.ok

\* C8: in part_001 begin writes no configuration; when the transport opened
\* it reads the IC version register (0x11) exactly once and succeeds,
\* whatever the outcome of that read; when the transport did not open it
\* fails and exchanges nothing.
C8_BeginProbes ==
    (rev = "part_001" /\ call.op = "begin") =>
        /\ bus[1].kind = "begin"
        /\ call.ok = bus[1].ok
        /\ \A k \in 1..Len(bus) : bus[k].kind # "write"
        /\ (bus[1].ok =>
               /\ Len(bus) = 2
               /\ bus[2].kind = "write_then_read"
               /\ bus[2].out = <<17>>
               /\ bus[2].rlen = 3)
        /\ (~bus[1].ok => Len(bus) = 1)

C8_Witness ==
    /\ rev = "part_001"
    /\ call.op = "begin"
    /\ bus[1].ok
    /\ Len(bus) = 2
    /\ bus[2].ok
    /\ ~ReadIsGood(bus[2], 17)
    /\ call.ok

\* what one call of a setter or getter must satisfy: exactly one exchange,
\* and a setter returns what its writeWord returned
OneExchange ==
    (call.op \in Setters \cup Getters) =>
        /\ Len(bus) = 1
        /\ (call.op \in Setters => (call.ok = call.codec /\ call.ok = bus[1].ok))

\* two calls of the same getter in a row, one whose readWord failed and one
\* whose readWord succeeded, return different numbers
CallerCanTell ==
    (/\ call.op \in Getters
     /\ call'.op = call.op
     /\ call'.codec # call.codec) => (call'.num # call.num)

\* C9: every setter and getter makes exactly one transport exchange, a setter
\* returns the result of its writeWord, and the caller of a getter can tell
\* a failed readWord from a successful one.
C9_ResultsPropagate ==
    [][OneExchange' /\ CallerCanTell]_vars

\* C10: getCellTemperature returns between -20 and 60 degrees (-200 to 600
\* tenths before the division by 10) whatever the read's outcome, a failed
\* read included; raw 0x9E4 gives -20.0 and raw 0xD04 gives +60.0.
C10_TemperatureRange ==
    call.op = "getCellTemperature" =>
        /\ call.den = 10
        /\ call.num >= -200
        /\ call.num <= 600
        /\ ((call.codec /\ bus[1].in[1] + 256 * bus[1].in[2] = 2532) => call.num = -200)
        /\ ((call.codec /\ bus[1].in[1] + 256 * bus[1].in[2] = 3332) => call.num = 600)

=============================================================================
